---------------------------- MODULE Spec2Model ----------------------------
(***************************************************************************)
(* Model of the signalling server of src/signaling.py (class               *)
(* SignalingServer).  One asyncio task runs per accepted connection; a     *)
(* task runs without interruption from one `await` to the next, so every   *)
(* action below is the code of one task between two suspension points.     *)
(*                                                                         *)
(* A websocket send writes the frame when it is called (or raises          *)
(* ConnectionClosed at once when the socket is closed) and may then        *)
(* suspend; a close marks the socket closed when it is called and then     *)
(* suspends.  A suspension that is followed by nothing but the next        *)
(* `await self.recv_msg_ping` is merged with that receive.                 *)
(***************************************************************************)
EXTENDS Integers, Sequences, FiniteSets, TLC

(* ---- bounds of the model ---------------------------------------------- *)
\* number of connections the server accepts
NConns == 3
\* frames the clients send after their handshakes, all together
MaxFrames == 2

Conns == 1..NConns
\* peer ids clients claim; connection c picks among the first c of them
\* (any assignment of ids to connections is a renaming of such a one)
UidList == <<"a", "b", "c", "d">>
UidOf(i) == UidList[IF i <= Len(UidList) THEN i ELSE Len(UidList)]
UIDs == {UidOf(i) : i \in Conns}
HelloChoices(c) == {UidOf(i) : i \in 1..c}
\* the one well-formed room id, and two ill-formed ones:
\* the reserved word and an id containing whitespace
RoomIds == {"lobby"}
BadRoomIds == {"session", "x y"}
Payloads == {"sdp"}

(* ---- values ------------------------------------------------------------ *)
\* Python's None as a peer status (Idle); an unbound local variable
None == "None"
Unbound == "unbound"
NoUid == "-"

\* A text frame.  t: first token, a: id argument, m: ids of a list reply,
\* p: payload
Frame(t, a, m, p) == [t |-> t, a |-> a, m |-> m, p |-> p]
HelloReply == Frame("HELLO", NoUid, {}, "")
SessionOk == Frame("SESSION_OK", NoUid, {}, "")
ErrorFrame(reason, a) == Frame("ERROR", a, {}, reason)
RoomOk(members) == Frame("ROOM_OK", NoUid, members, "")
RoomPeerJoined(u) == Frame("ROOM_PEER_JOINED", u, {}, "")
RoomPeerLeft(u) == Frame("ROOM_PEER_LEFT", u, {}, "")
RoomPeerMsgOut(sender, p) == Frame("ROOM_PEER_MSG", sender, {}, p)

NoFrame == Frame("", NoUid, {}, "")
\* nothing recorded: the client has not hung up, or was in no session or room
NoHangup == [uid |-> NoUid, partner |-> NoUid, pws |-> 0, mates |-> {}]

\* frames a client sends once registered
SessionCmds == {Frame("SESSION", u, {}, "") : u \in UIDs}
RoomCmds == {Frame("ROOM", r, {}, "") : r \in RoomIds \cup BadRoomIds}
RoomPeerMsgCmds == {Frame("ROOM_PEER_MSG", u, {}, p) : u \in UIDs, p \in Payloads}
RoomPeerListCmd == Frame("ROOM_PEER_LIST", NoUid, {}, "")
DataFrames == {Frame("DATA", NoUid, {}, p) : p \in Payloads}
ClientFrames == SessionCmds \cup RoomCmds \cup RoomPeerMsgCmds
                  \cup {RoomPeerListCmd} \cup DataFrames

(* ---- state ------------------------------------------------------------- *)
VARIABLES
  peers,      \* self.peers: uid -> [ws, status]  (raddr is informational)
  sessions,   \* self.sessions: uid -> uid
  rooms,      \* self.rooms: room id -> set of uids
  open,       \* ws.open of each connection's websocket
  pc,         \* where each connection's task is suspended
  uid,        \* the task's peer_id / uid
  callee_id,  \* local callee_id while SESSION_OK is being sent
  room_id,    \* local room_id of connection_handler
  iterSnap,   \* the set iterator of a broadcast loop: the set when it began
  iterSeen,   \*   and the members it has yielded
  rp_ws,      \* local ws of remove_peer while cleanup_room runs
  rp_room,    \* parameter room_id of cleanup_room while it runs
  outbox,     \* frames written to each connection, in order
  nrecv,      \* frames received from each connection after its handshake
  msg,        \* local msg of line 90: the frame recv_msg_ping returned last
  hangup,     \* history: what a peer was part of when its client hung up
  removes     \* history: calls of remove_peer by each connection's handler

vars == <<peers, sessions, rooms, open, pc, uid, callee_id, room_id,
          iterSnap, iterSeen, rp_ws, rp_room, outbox, nrecv, msg, hangup,
          removes>>

\* SignalingServer.__init__, and every connection accepted and waiting
\* for its first frame
Init ==
  /\ peers = << >>
  /\ sessions = << >>
  /\ rooms = << >>
  /\ open = [c \in Conns |-> TRUE]
  /\ pc = [c \in Conns |-> "hello_recv"]
  /\ uid = [c \in Conns |-> NoUid]
  /\ callee_id = [c \in Conns |-> Unbound]
  /\ room_id = [c \in Conns |-> Unbound]
  /\ iterSnap = [c \in Conns |-> {}]
  /\ iterSeen = [c \in Conns |-> {}]
  /\ rp_ws = [c \in Conns |-> 0]
  /\ rp_room = [c \in Conns |-> Unbound]
  /\ outbox = [c \in Conns |-> << >>]
  /\ nrecv = [c \in Conns |-> 0]
  /\ msg = [c \in Conns |-> NoFrame]
  /\ hangup = [c \in Conns |-> NoHangup]
  /\ removes = [c \in Conns |-> 0]

(* ---- dictionaries ------------------------------------------------------ *)
Has(d, k) == k \in DOMAIN d
Del(d, k) == [x \in (DOMAIN d) \ {k} |-> d[x]]
Put(d, k, v) == [x \in (DOMAIN d) \cup {k} |-> IF x = k THEN v ELSE d[x]]

(* ---- the shared state and a task's locals, as values ------------------- *)
\* The code between two suspension points is a sequence of statements; it
\* is computed on a record of the shared state (st) and a record of the
\* running task's local variables (l), and committed by the action.
Cur ==
  [peers |-> peers, sessions |-> sessions, rooms |-> rooms,
   open |-> open, outbox |-> outbox, removes |-> removes]
Loc(c) ==
  [pc |-> pc[c], uid |-> uid[c],
   callee_id |-> callee_id[c], room_id |-> room_id[c],
   snap |-> iterSnap[c], seen |-> iterSeen[c],
   rp_ws |-> rp_ws[c], rp_room |-> rp_room[c]]
Res(st, l) == [st |-> st, l |-> l]

\* await ws.send(msg) on an open socket: the frame is written
Send(st, w, f) == [st EXCEPT !.outbox[w] = Append(@, f)]
\* await ws.close(): the socket is closed from the call on
Close(st, w) == [st EXCEPT !.open[w] = FALSE]

\* The handler coroutine ends (normally or by an exception): websockets
\* closes the connection of a handler that has returned.  The locals die.
Exit(c, st) ==
  Res(Close(st, c),
      [pc |-> "done", uid |-> NoUid,
       callee_id |-> Unbound, room_id |-> Unbound,
       snap |-> {}, seen |-> {}, rp_ws |-> 0, rp_room |-> Unbound])

\* The task suspends at the await named by newpc
Suspend(st, l, newpc) == Res(st, [l EXCEPT !.pc = newpc])
\* ... leaving a broadcast loop or remove_peer's helpers behind
Await(st, l, newpc) ==
  Res(st, [l EXCEPT !.pc = newpc, !.snap = {}, !.seen = {},
                    !.rp_ws = 0, !.rp_room = Unbound, !.callee_id = Unbound])

(* ---- Cleanup Coordinator ----------------------------------------------- *)
\* One step of Python's set iterator over the live set cur, created when
\* the set was snap, having yielded seen.  The iterator raises RuntimeError
\* when the set's size differs from the size at its creation; otherwise it
\* yields a member it has not passed.  A member added since its creation
\* lies before or after its position: it may be yielded or missed.
\* pick is the scheduler's choice of the member (NoUid: miss the new ones).
IterRaises(cur, snap) == Cardinality(cur) # Cardinality(snap)
IterOld(cur, snap, seen) == (cur \cap snap) \ seen
IterNew(cur, snap, seen) == (cur \ snap) \ seen
IterEnds(cur, snap, seen, pick) ==
  /\ IterOld(cur, snap, seen) = {}
  /\ (IterNew(cur, snap, seen) = {} \/ pick = NoUid)
IterNext(cur, snap, seen, pick) ==
  IF pick \in IterOld(cur, snap, seen) \cup IterNew(cur, snap, seen)
  THEN pick
  ELSE CHOOSE x \in IterOld(cur, snap, seen) \cup IterNew(cur, snap, seen) : TRUE

\* remove_peer, lines 79-81: del self.peers[uid]; await ws.close(); the
\* handler then returns.  (KeyError when another task removed the entry
\* while cleanup_room was suspended.)
RemoveFinish(c, u, st, ws) ==
  IF Has(st.peers, u)
  THEN Exit(c, Close([st EXCEPT !.peers = Del(@, u)], ws))
  ELSE Exit(c, st)

\* cleanup_room, the for loop of lines 67-71, from one iteration to the
\* next suspension (await wsp.send), and the rest of remove_peer after it
CleanupRoomLoop(c, u, st, l, pick) ==
  LET cur == st.rooms[l.rp_room] IN
  IF IterRaises(cur, l.snap) THEN Exit(c, st)
  ELSE IF IterEnds(cur, l.snap, l.seen, pick)
  THEN RemoveFinish(c, u, st, l.rp_ws)
  ELSE LET pid == IterNext(cur, l.snap, l.seen, pick) IN
    IF ~Has(st.peers, pid) THEN Exit(c, st)
    ELSE IF ~st.open[st.peers[pid].ws] THEN Exit(c, st)
    ELSE Suspend(Send(st, st.peers[pid].ws, RoomPeerLeft(u)),
                 [l EXCEPT !.seen = @ \cup {pid}], "left_bcast")

\* cleanup_room, lines 63-66, then its loop
cleanup_room(c, u, st, l, pick) ==
  LET r == l.rp_room IN
  IF u \notin st.rooms[r] THEN RemoveFinish(c, u, st, l.rp_ws)
  ELSE LET st1 == [st EXCEPT !.rooms[r] = @ \ {u}] IN
    CleanupRoomLoop(c, u, st1,
                    [l EXCEPT !.snap = st1.rooms[r], !.seen = {}], pick)

\* remove_peer after cleanup_session, lines 75-81
RemovePeerRest(c, u, st, l, pick) ==
  IF Has(st.peers, u)
  THEN LET ws == st.peers[u].ws
           status == st.peers[u].status IN
    IF status # None /\ status # "session"
    THEN cleanup_room(c, u, st, [l EXCEPT !.rp_ws = ws, !.rp_room = status], pick)
    ELSE RemoveFinish(c, u, st, ws)
  ELSE Exit(c, st)

\* cleanup_session, lines 47-60, up to its await wso.close(); when it does
\* not suspend, remove_peer goes on
cleanup_session(c, u, st, l, pick) ==
  IF Has(st.sessions, u)
  THEN LET other_id == st.sessions[u]
           s1 == Del(st.sessions, u) IN
    IF Has(s1, other_id)
    THEN LET st2 == [st EXCEPT !.sessions = Del(s1, other_id)] IN
      IF Has(st.peers, other_id)
      THEN Await(Close([st2 EXCEPT !.peers = Del(@, other_id)],
                       st.peers[other_id].ws), l, "cs_closing")
      ELSE RemovePeerRest(c, u, st2, l, pick)
    ELSE RemovePeerRest(c, u, [st EXCEPT !.sessions = s1], l, pick)
  ELSE RemovePeerRest(c, u, st, l, pick)

\* handler's finally clause: await self.remove_peer(peer_id), reached when
\* connection_handler raises (ConnectionClosed or any other exception)
remove_peer(c, u, st, l, pick) ==
  cleanup_session(c, u, [st EXCEPT !.removes[c] = @ + 1], l, pick)

(* ---- connection_handler ------------------------------------------------ *)
\* Room name cannot be 'session', empty, or contain whitespace (line 154)
HasWhitespace(id) == \E i \in 1..Len(id) : SubSeq(id, i, i) = " "
InvalidRoomId(id) == id = "session" \/ HasWhitespace(id)

\* The for loop of lines 169-175, from one iteration to the next suspension
\* (await wsp.send).  The joiner itself is passed over without suspending.
\* An exception leaves connection_handler and runs remove_peer.
JoinLoop(c, u, st, l, pick, pick2) ==
  LET cur == st.rooms[l.room_id]
      seen == l.seen \cup {u} IN
  IF IterRaises(cur, l.snap) THEN remove_peer(c, u, st, l, pick2)
  ELSE IF IterEnds(cur, l.snap, seen, pick) THEN Await(st, l, "recv")
  ELSE LET pid == IterNext(cur, l.snap, seen, pick) IN
    IF ~Has(st.peers, pid) THEN remove_peer(c, u, st, l, pick2)
    ELSE IF ~st.open[st.peers[pid].ws] THEN remove_peer(c, u, st, l, pick2)
    ELSE Suspend(Send(st, st.peers[pid].ws, RoomPeerJoined(u)),
                 [l EXCEPT !.seen = @ \cup {pid}], "join_bcast")

\* lines 167-175 after await ws.send('ROOM_OK ...'): enter the room
EnterRoom(c, u, st, l, pick, pick2) ==
  IF ~Has(st.peers, u) THEN remove_peer(c, u, st, l, pick2)
  ELSE LET r == l.room_id
           st1 == [st EXCEPT !.peers[u].status = r, !.rooms[r] = @ \cup {u}] IN
    JoinLoop(c, u, st1, [l EXCEPT !.snap = st1.rooms[r], !.seen = {}],
             pick, pick2)

\* lines 141-148 after await ws.send('SESSION_OK'): register the session
RegisterSession(c, u, st, l, pick) ==
  IF ~Has(st.peers, l.callee_id) \/ ~Has(st.peers, u)
  THEN remove_peer(c, u, st, l, pick)
  ELSE Await([st EXCEPT
                !.peers = [@ EXCEPT ![u].status = "session",
                                    ![l.callee_id].status = "session"],
                !.sessions = Put(Put(@, u, l.callee_id), l.callee_id, u)],
             l, "recv")

\* lines 96-101: in a session, route the message to the connected peer
RelayInSession(c, u, f, st, l, pick) ==
  IF ~Has(st.sessions, u) THEN remove_peer(c, u, st, l, pick)
  ELSE LET other_id == st.sessions[u] IN
    IF ~Has(st.peers, other_id) THEN remove_peer(c, u, st, l, pick)
    ELSE IF st.peers[other_id].status # "session"
    THEN remove_peer(c, u, st, l, pick)
    ELSE IF ~st.open[st.peers[other_id].ws]
    THEN remove_peer(c, u, st, l, pick)
    ELSE Suspend(Send(st, st.peers[other_id].ws, f), l, "recv")

\* A faulty variant of the room commands, against which CleanupExactlyOnce
\* is tested: the NameError of line 120 ends the handler without running
\* the finally clause of line 202.
RoomCommandNoFinally(c, u, f, st, l, pick) ==
  IF f.t = "ROOM_PEER_MSG"
  THEN IF ~Has(st.peers, f.a)
    THEN Suspend(Send(st, c, ErrorFrame("not found", f.a)), l, "recv")
    ELSE IF l.room_id = Unbound THEN remove_peer(c, u, st, l, pick)
    ELSE IF st.peers[f.a].status # l.room_id
    THEN Suspend(Send(st, c, ErrorFrame("is not in the room", f.a)), l, "recv")
    ELSE IF ~st.open[st.peers[f.a].ws] THEN remove_peer(c, u, st, l, pick)
    ELSE Suspend(Send(st, st.peers[f.a].ws, RoomPeerMsgOut(u, f.p)), l, "recv")
  ELSE IF f.t = "ROOM_PEER_LIST" THEN Exit(c, st)
  ELSE Suspend(Send(st, c, ErrorFrame("invalid msg, already in room", "")),
               l, "recv")

\* lines 103-127: in a room, accept room-specific commands.  Line 120
\* names peer_id, which is no variable of connection_handler: NameError.
RoomCommand(c, u, f, st, l, pick) ==
  IF f.t = "ROOM_PEER_MSG"
  THEN IF ~Has(st.peers, f.a)
    THEN Suspend(Send(st, c, ErrorFrame("not found", f.a)), l, "recv")
    ELSE IF l.room_id = Unbound THEN remove_peer(c, u, st, l, pick)
    ELSE IF st.peers[f.a].status # l.room_id
    THEN Suspend(Send(st, c, ErrorFrame("is not in the room", f.a)), l, "recv")
    ELSE IF ~st.open[st.peers[f.a].ws] THEN remove_peer(c, u, st, l, pick)
    ELSE Suspend(Send(st, st.peers[f.a].ws, RoomPeerMsgOut(u, f.p)), l, "recv")
  ELSE IF f.t = "ROOM_PEER_LIST" THEN remove_peer(c, u, st, l, pick)
  ELSE Suspend(Send(st, c, ErrorFrame("invalid msg, already in room", "")),
               l, "recv")

\* lines 131-148 up to await ws.send('SESSION_OK').  peer_status is None
\* in this branch, so the test of line 137 never holds.
SessionCommand(c, u, f, st, l, pick) ==
  IF ~Has(st.peers, f.a)
  THEN Suspend(Send(st, c, ErrorFrame("not found", f.a)), l, "recv")
  ELSE Suspend(Send(st, c, SessionOk), [l EXCEPT !.callee_id = f.a],
               "session_ok_sent")

\* lines 150-165 up to await ws.send('ROOM_OK ...'), for room_id parsed
\* from the frame
JoinCommand(c, u, id, st, l, pick) ==
  LET l1 == [l EXCEPT !.room_id = id] IN
  IF InvalidRoomId(id)
  THEN Suspend(Send(st, c, ErrorFrame("invalid room id", id)), l1, "recv")
  ELSE IF Has(st.rooms, id) /\ u \in st.rooms[id]
  THEN remove_peer(c, u, st, l1, pick)
  ELSE LET st1 == IF Has(st.rooms, id) THEN st
                  ELSE [st EXCEPT !.rooms = Put(@, id, {})] IN
    Suspend(Send(st1, c, RoomOk(st1.rooms[id])), l1, "room_ok_sent")

\* msg.startswith('ROOM') for an idle peer, lines 150-152: every frame
\* whose first token begins with ROOM is split in two at the first blank
IdleRoomPrefixed(c, u, f, st, l, pick) ==
  IF f.t = "ROOM" THEN JoinCommand(c, u, f.a, st, l, pick)
  ELSE IF f.t = "ROOM_PEER_MSG"
  THEN JoinCommand(c, u, f.a \o " " \o f.p, st, l, pick)
  ELSE remove_peer(c, u, st, l, pick)

\* lines 92-177: dispatch of one received frame on the peer's status
Dispatch(c, u, f, st, l, pick) ==
  IF ~Has(st.peers, u) THEN remove_peer(c, u, st, l, pick)
  ELSE LET peer_status == st.peers[u].status IN
    IF peer_status = "session" THEN RelayInSession(c, u, f, st, l, pick)
    ELSE IF peer_status # None THEN RoomCommand(c, u, f, st, l, pick)
    ELSE IF f.t = "SESSION" THEN SessionCommand(c, u, f, st, l, pick)
    ELSE IF f.t \in {"ROOM", "ROOM_PEER_MSG", "ROOM_PEER_LIST"}
    THEN IdleRoomPrefixed(c, u, f, st, l, pick)
    ELSE Suspend(st, l, "recv")

(* ---- actions: one task from one suspension point to the next ----------- *)
Commit(c, res) ==
  /\ peers' = res.st.peers
  /\ sessions' = res.st.sessions
  /\ rooms' = res.st.rooms
  /\ open' = res.st.open
  /\ outbox' = res.st.outbox
  /\ removes' = res.st.removes
  /\ pc' = [pc EXCEPT ![c] = res.l.pc]
  /\ uid' = [uid EXCEPT ![c] = res.l.uid]
  /\ callee_id' = [callee_id EXCEPT ![c] = res.l.callee_id]
  /\ room_id' = [room_id EXCEPT ![c] = res.l.room_id]
  /\ iterSnap' = [iterSnap EXCEPT ![c] = res.l.snap]
  /\ iterSeen' = [iterSeen EXCEPT ![c] = res.l.seen]
  /\ rp_ws' = [rp_ws EXCEPT ![c] = res.l.rp_ws]
  /\ rp_room' = [rp_room EXCEPT ![c] = res.l.rp_room]

\* the members a set iterator can yield next, and NoUid
Picks == UNION {rooms[r] : r \in DOMAIN rooms} \cup {NoUid}

\* first frames a client may send: HELLO with an id (one of them with
\* whitespace in it), a lone token, and another first token
HelloFrames(c) ==
  {Frame("HELLO", u, {}, "") : u \in HelloChoices(c) \cup {"x y"}}
    \cup {Frame("HELLO", "", {}, ""), Frame("HI", UidOf(1), {}, "")}

\* A faulty variant of the handshake, against which
\* RejectedHandshakeHarmless is tested: a rejected handshake runs the
\* cleanup for the uid it claimed.
hello_peer_cleans(c, f) ==
  /\ pc[c] = "hello_recv"
  /\ open[c]
  /\ f \in HelloFrames(c)
  /\ IF f.a = "" \/ f.t # "HELLO" \/ Has(peers, f.a) \/ HasWhitespace(f.a)
     THEN Commit(c, remove_peer(c, f.a, Cur, Loc(c), NoUid))
     ELSE Commit(c, Suspend(Send(Cur, c, HelloReply),
                            [Loc(c) EXCEPT !.uid = f.a], "hello_sent"))
  /\ UNCHANGED <<nrecv, msg, hangup>>

\* hello_peer, lines 180-191, up to await ws.send('HELLO').  An exception
\* of hello_peer leaves handler before its try statement.
hello_peer(c, f) ==
  /\ pc[c] = "hello_recv"
  /\ open[c]
  /\ f \in HelloFrames(c)
  /\ IF f.a = "" \/ f.t # "HELLO" \/ Has(peers, f.a) \/ HasWhitespace(f.a)
     THEN Commit(c, Exit(c, Cur))
     ELSE Commit(c, Suspend(Send(Cur, c, HelloReply),
                            [Loc(c) EXCEPT !.uid = f.a], "hello_sent"))
  /\ UNCHANGED <<nrecv, msg, hangup>>

\* hello_peer awaiting the first frame of a connection that closes
HelloClosed(c) ==
  /\ pc[c] = "hello_recv"
  /\ ~open[c]
  /\ Commit(c, Exit(c, Cur))
  /\ UNCHANGED <<nrecv, msg, hangup>>

\* connection_handler, lines 84-90: register the peer and await a command
RegisterPeer(c) ==
  /\ pc[c] = "hello_sent"
  /\ Commit(c, Suspend([Cur EXCEPT !.peers =
                          Put(@, uid[c], [ws |-> c, status |-> None])],
                       Loc(c), "recv"))
  /\ UNCHANGED <<nrecv, msg, hangup>>

\* the frames received so far, all connections together
RECURSIVE SumTo(_, _)
SumTo(f, n) == IF n = 0 THEN 0 ELSE f[n] + SumTo(f, n - 1)
FramesReceived == SumTo(nrecv, NConns)

\* recv_msg_ping returns a frame (the keepalive ping changes no state);
\* the frame is handled up to the next suspension
RecvFrame(c, f, pick) ==
  /\ pc[c] = "recv"
  /\ open[c]
  /\ FramesReceived < MaxFrames
  /\ f \in ClientFrames
  /\ Commit(c, Dispatch(c, uid[c], f, Cur, Loc(c), pick))
  /\ nrecv' = [nrecv EXCEPT ![c] = @ + 1]
  /\ msg' = [msg EXCEPT ![c] = f]
  /\ UNCHANGED hangup

\* recv_msg_ping raises ConnectionClosed: handler's except and finally
RecvClosed(c, pick) ==
  /\ pc[c] = "recv"
  /\ ~open[c]
  /\ Commit(c, remove_peer(c, uid[c], Cur, Loc(c), pick))
  /\ UNCHANGED <<nrecv, msg, hangup>>

\* resumes after await ws.send('SESSION_OK')
SessionOkSent(c, pick) ==
  /\ pc[c] = "session_ok_sent"
  /\ Commit(c, RegisterSession(c, uid[c], Cur, Loc(c), pick))
  /\ UNCHANGED <<nrecv, msg, hangup>>

\* resumes after await ws.send('ROOM_OK ...')
RoomOkSent(c, pick, pick2) ==
  /\ pc[c] = "room_ok_sent"
  /\ Commit(c, EnterRoom(c, uid[c], Cur, Loc(c), pick, pick2))
  /\ UNCHANGED <<nrecv, msg, hangup>>

\* resumes after await wsp.send('ROOM_PEER_JOINED ...')
JoinedSent(c, pick, pick2) ==
  /\ pc[c] = "join_bcast"
  /\ Commit(c, JoinLoop(c, uid[c], Cur, Loc(c), pick, pick2))
  /\ UNCHANGED <<nrecv, msg, hangup>>

\* resumes after await wso.close() of cleanup_session
PartnerClosed(c, pick) ==
  /\ pc[c] = "cs_closing"
  /\ Commit(c, RemovePeerRest(c, uid[c], Cur, Loc(c), pick))
  /\ UNCHANGED <<nrecv, msg, hangup>>

\* resumes after await wsp.send('ROOM_PEER_LEFT ...')
LeftSent(c, pick) ==
  /\ pc[c] = "left_bcast"
  /\ Commit(c, CleanupRoomLoop(c, uid[c], Cur, Loc(c), pick))
  /\ UNCHANGED <<nrecv, msg, hangup>>

\* Peers u and v are in session with each other
InSessionWith(u, v) ==
  /\ Has(sessions, u) /\ sessions[u] = v
  /\ Has(sessions, v) /\ sessions[v] = u
  /\ Has(peers, u) /\ Has(peers, v)
\* The connections of the other members of the room peer u is in
RoomMates(u) ==
  IF Has(peers, u) /\ Has(rooms, peers[u].status)
       /\ u \in rooms[peers[u].status]
  THEN {peers[m].ws : m \in {x \in rooms[peers[u].status] \ {u} : Has(peers, x)}}
  ELSE {}
\* What the peer of connection c is part of, when c is the connection
\* registered under its id
HangupOf(c) ==
  LET u == uid[c] IN
  IF Has(peers, u) /\ peers[u].ws = c
  THEN IF \E v \in UIDs \ {u} : InSessionWith(u, v)
       THEN [uid |-> u, partner |-> sessions[u],
             pws |-> peers[sessions[u]].ws, mates |-> {}]
       ELSE IF RoomMates(u) # {}
       THEN [uid |-> u, partner |-> NoUid, pws |-> 0, mates |-> RoomMates(u)]
       ELSE NoHangup
  ELSE NoHangup

\* the client closes its connection, or the network drops it
ClientClose(c) ==
  /\ pc[c] # "done"
  /\ open[c]
  /\ open' = [open EXCEPT ![c] = FALSE]
  /\ hangup' = [hangup EXCEPT ![c] = HangupOf(c)]
  /\ UNCHANGED <<peers, sessions, rooms, pc, uid, callee_id, room_id,
                 iterSnap, iterSeen, rp_ws, rp_room, outbox, nrecv, msg,
                 removes>>

Next ==
  \/ \E c \in Conns : \E f \in HelloFrames(c) : hello_peer(c, f)
  \/ \E c \in Conns : HelloClosed(c)
  \/ \E c \in Conns : RegisterPeer(c)
  \/ \E c \in Conns : \E f \in ClientFrames : \E pick \in Picks :
       RecvFrame(c, f, pick)
  \/ \E c \in Conns : \E pick \in Picks : RecvClosed(c, pick)
  \/ \E c \in Conns : \E pick \in Picks : SessionOkSent(c, pick)
  \/ \E c \in Conns : \E pick, pick2 \in Picks : RoomOkSent(c, pick, pick2)
  \/ \E c \in Conns : \E pick, pick2 \in Picks : JoinedSent(c, pick, pick2)
  \/ \E c \in Conns : \E pick \in Picks : PartnerClosed(c, pick)
  \/ \E c \in Conns : \E pick \in Picks : LeftSent(c, pick)
  \/ \E c \in Conns : ClientClose(c)

Spec == Init /\ [][Next]_vars

(* ---- later starting points --------------------------------------------- *)
\* Two states reached from Init, from either of which MaxFrames more
\* frames follow; every connection not named still awaits its first frame.
\* InitLobby: connections 1 and 2 have registered as "a" and "b" and joined
\* the lobby one after the other.
JoinFrame == Frame("ROOM", "lobby", {}, "")
InitLobby ==
  /\ peers = [u \in {"a", "b"} |->
               [ws |-> IF u = "a" THEN 1 ELSE 2, status |-> "lobby"]]
  /\ sessions = << >>
  /\ rooms = [r \in {"lobby"} |-> {"a", "b"}]
  /\ open = [c \in Conns |-> TRUE]
  /\ pc = [c \in Conns |-> IF c \in {1, 2} THEN "recv" ELSE "hello_recv"]
  /\ uid = [c \in Conns |-> IF c = 1 THEN "a" ELSE IF c = 2 THEN "b" ELSE NoUid]
  /\ callee_id = [c \in Conns |-> Unbound]
  /\ room_id = [c \in Conns |-> IF c \in {1, 2} THEN "lobby" ELSE Unbound]
  /\ iterSnap = [c \in Conns |-> {}]
  /\ iterSeen = [c \in Conns |-> {}]
  /\ rp_ws = [c \in Conns |-> 0]
  /\ rp_room = [c \in Conns |-> Unbound]
  /\ outbox = [c \in Conns |->
                IF c = 1 THEN <<HelloReply, RoomOk({}), RoomPeerJoined("b")>>
                ELSE IF c = 2 THEN <<HelloReply, RoomOk({"a"})>>
                ELSE << >>]
  /\ nrecv = [c \in Conns |-> 0]
  /\ msg = [c \in Conns |-> IF c \in {1, 2} THEN JoinFrame ELSE NoFrame]
  /\ hangup = [c \in Conns |-> NoHangup]
  /\ removes = [c \in Conns |-> 0]

\* InitSession: connections 1 and 2 have registered as "a" and "b", and
\* "a" has called "b".
CallFrame == Frame("SESSION", "b", {}, "")
InitSession ==
  /\ peers = [u \in {"a", "b"} |->
               [ws |-> IF u = "a" THEN 1 ELSE 2, status |-> "session"]]
  /\ sessions = [u \in {"a", "b"} |-> IF u = "a" THEN "b" ELSE "a"]
  /\ rooms = << >>
  /\ open = [c \in Conns |-> TRUE]
  /\ pc = [c \in Conns |-> IF c \in {1, 2} THEN "recv" ELSE "hello_recv"]
  /\ uid = [c \in Conns |-> IF c = 1 THEN "a" ELSE IF c = 2 THEN "b" ELSE NoUid]
  /\ callee_id = [c \in Conns |-> Unbound]
  /\ room_id = [c \in Conns |-> Unbound]
  /\ iterSnap = [c \in Conns |-> {}]
  /\ iterSeen = [c \in Conns |-> {}]
  /\ rp_ws = [c \in Conns |-> 0]
  /\ rp_room = [c \in Conns |-> Unbound]
  /\ outbox = [c \in Conns |->
                IF c = 1 THEN <<HelloReply, SessionOk>>
                ELSE IF c = 2 THEN <<HelloReply>>
                ELSE << >>]
  /\ nrecv = [c \in Conns |-> 0]
  /\ msg = [c \in Conns |-> IF c = 1 THEN CallFrame ELSE NoFrame]
  /\ hangup = [c \in Conns |-> NoHangup]
  /\ removes = [c \in Conns |-> 0]

SpecLater == (InitLobby \/ InitSession) /\ [][Next]_vars

\* InitLobby and InitSession are states of Spec but for the count of frames
LobbyReached ==
  /\ peers = [u \in {"a", "b"} |->
               [ws |-> IF u = "a" THEN 1 ELSE 2, status |-> "lobby"]]
  /\ rooms = [r \in {"lobby"} |-> {"a", "b"}]
  /\ sessions = << >>
  /\ \A c \in Conns : open[c] /\ hangup[c] = NoHangup
  /\ pc = [c \in Conns |-> IF c \in {1, 2} THEN "recv" ELSE "hello_recv"]
  /\ uid[1] = "a" /\ uid[2] = "b"
  /\ room_id[1] = "lobby" /\ room_id[2] = "lobby"
  /\ outbox[1] = <<HelloReply, RoomOk({}), RoomPeerJoined("b")>>
  /\ outbox[2] = <<HelloReply, RoomOk({"a"})>>
  /\ msg[1] = JoinFrame /\ msg[2] = JoinFrame
  /\ \A c \in Conns : /\ callee_id[c] = Unbound
                       /\ iterSnap[c] = {} /\ iterSeen[c] = {}
                       /\ rp_ws[c] = 0 /\ rp_room[c] = Unbound
NotLobbyReached == ~LobbyReached
SessionReached ==
  /\ peers = [u \in {"a", "b"} |->
               [ws |-> IF u = "a" THEN 1 ELSE 2, status |-> "session"]]
  /\ sessions = [u \in {"a", "b"} |-> IF u = "a" THEN "b" ELSE "a"]
  /\ rooms = << >>
  /\ \A c \in Conns : open[c] /\ hangup[c] = NoHangup
  /\ pc = [c \in Conns |-> IF c \in {1, 2} THEN "recv" ELSE "hello_recv"]
  /\ uid[1] = "a" /\ uid[2] = "b"
  /\ outbox[1] = <<HelloReply, SessionOk>>
  /\ outbox[2] = <<HelloReply>>
  /\ outbox[3] = << >>
  /\ msg[1] = CallFrame /\ msg[2] = NoFrame
  /\ \A c \in Conns : /\ callee_id[c] = Unbound /\ room_id[c] = Unbound
                       /\ iterSnap[c] = {} /\ iterSeen[c] = {}
                       /\ rp_ws[c] = 0 /\ rp_room[c] = Unbound
NotSessionReached == ~SessionReached

(* ---- claims ------------------------------------------------------------ *)
\* C1: session symmetry.  In every reachable state, for all peer ids A and
\* B, sessions[A] = B if and only if sessions[B] = A.
SessionSymmetry ==
  \A A \in UIDs, B \in UIDs :
    (Has(sessions, A) /\ sessions[A] = B)
      <=> (Has(sessions, B) /\ sessions[B] = A)

\* C2: room membership symmetry.  In every reachable state, for every peer
\* id p and room id r, p is in rooms[r] if and only if p is registered in
\* peers with status r.
RoomMembershipSymmetry ==
  \A p \in UIDs, r \in RoomIds :
    (Has(rooms, r) /\ p \in rooms[r])
      <=> (Has(peers, p) /\ peers[p].status = r)

\* C3: no dangling references.  In every reachable state, every key and
\* every value of sessions, and every member of every room, is a peer id
\* present in peers.
NoDanglingReferences ==
  /\ \A k \in DOMAIN sessions : Has(peers, k) /\ Has(peers, sessions[k])
  /\ \A r \in DOMAIN rooms : \A p \in rooms[r] : Has(peers, p)

\* connection c's handler records a session in this step
SessionRecordedBy(c) == pc[c] = "session_ok_sent" /\ pc'[c] = "recv"
\* C4: exclusive pairing of idle peers.  Every step that records a session
\* (the SESSION branch resuming after SESSION_OK and reaching the next
\* receive) records it between two distinct peers that are both Idle at
\* that moment.
ExclusivePairing ==
  [][\A c \in Conns :
       SessionRecordedBy(c) =>
         /\ uid[c] # callee_id[c]
         /\ peers[uid[c]].status = None
         /\ peers[callee_id[c]].status = None]_vars

\* No task has a step left to take unless a client sends or hangs up:
\* every handler has returned or awaits a frame on an open connection.
Quiescent ==
  \A c \in Conns :
    pc[c] = "done" \/ (pc[c] \in {"hello_recv", "recv"} /\ open[c])

\* C5: disconnect cascade.  If A and B are in session with each other and
\* A's connection closes, then B's connection is closed and neither
\* sessions[A] nor sessions[B] remains: stated of the states in which A's
\* handler has returned and the server has nothing left to do.  (An entry
\* of a peer id that is registered again is not counted as remaining.)
DisconnectCascade ==
  \A c \in Conns :
    (pc[c] = "done" /\ hangup[c].partner # NoUid /\ Quiescent) =>
      /\ ~open[hangup[c].pws]
      /\ Has(sessions, hangup[c].uid) => Has(peers, hangup[c].uid)
      /\ Has(sessions, hangup[c].partner) => Has(peers, hangup[c].partner)

\* frame f has been written to connection b
Received(b, f) == \E i \in DOMAIN outbox[b] : outbox[b][i] = f
\* C6: room leave broadcast.  If A and B are both members of a room and A
\* disconnects while B stays connected, B receives ROOM_PEER_LEFT A: stated
\* of the states in which A's handler has returned and the server has
\* nothing left to do.
RoomLeaveBroadcast ==
  \A c \in Conns, b \in Conns :
    (/\ pc[c] = "done" /\ b \in hangup[c].mates
     /\ Quiescent /\ pc[b] = "recv" /\ open[b]) =>
      Received(b, RoomPeerLeft(hangup[c].uid))

\* A and B are in session with each other, in the state as it is now
InSession(A, B) ==
  /\ A # B
  /\ InSessionWith(A, B)
  /\ peers[A].status = "session"
  /\ peers[B].status = "session"
\* this step handles a frame received from connection c
ReceivesFrame(c) == nrecv'[c] = nrecv[c] + 1
\* The relay of lines 96-101 by itself: while each of A and B is the
\* other's entry of sessions and the connection registered for B is open,
\* a frame received from A is written unmodified at the end of what B has
\* received, and to no other connection.
RelayWhileMutual ==
  [][\A c \in Conns, B \in UIDs :
       (ReceivesFrame(c) /\ InSession(uid[c], B) /\ open[peers[B].ws]) =>
         outbox' = [outbox EXCEPT ![peers[B].ws] = Append(@, msg'[c])]]_vars
\* a DATA frame received from a peer in session is the last frame written
\* to its partner's connection
RelayReached ==
  \E c \in Conns, B \in UIDs :
    /\ InSession(uid[c], B)
    /\ msg[c] \in DataFrames
    /\ peers[B].ws # c
    /\ outbox[peers[B].ws] # << >>
    /\ outbox[peers[B].ws][Len(outbox[peers[B].ws])] = msg[c]
NotRelayReached == ~RelayReached

\* A session was recorded between A and B and neither has left: both are
\* registered with status 'session' and one holds the other's id in
\* sessions.  (Lines 145-148 write the two entries of a session together,
\* and nothing else writes an entry.)
SessionBetween(A, B) ==
  /\ A # B
  /\ Has(peers, A) /\ peers[A].status = "session"
  /\ Has(peers, B) /\ peers[B].status = "session"
  /\ \/ Has(sessions, A) /\ sessions[A] = B
     \/ Has(sessions, B) /\ sessions[B] = A
\* C7: relay fidelity.  Once A and B are in session with each other, and
\* for as long as both stay connected, every frame the server receives
\* from either is written unmodified at the end of what the other has
\* received, and to no other connection; so each receives the other's
\* frames in the order they were sent.
RelayFidelity ==
  [][\A c \in Conns, B \in UIDs :
       (/\ ReceivesFrame(c) /\ SessionBetween(uid[c], B)
        /\ open[peers[B].ws]) =>
         outbox' = [outbox EXCEPT ![peers[B].ws] = Append(@, msg'[c])]]_vars

\* The status of the peer of connection c is a room id
InRoom(c, r) ==
  /\ Has(peers, uid[c])
  /\ peers[uid[c]].status = r
  /\ r \notin {None, "session"}
Idle(c) == Has(peers, uid[c]) /\ peers[uid[c]].status = None

\* the reply the protocol asks for
RoomPeerListReply(r, u) == Frame("ROOM_PEER_LIST", NoUid, rooms[r] \ {u}, "")
\* C8: ROOM_PEER_LIST.  A peer whose status is InRoom(r) that sends
\* ROOM_PEER_LIST receives ROOM_PEER_LIST with exactly the ids of rooms[r]
\* other than its own, and stays registered and in room r.
RoomPeerListAnswered ==
  [][\A c \in Conns, r \in RoomIds :
       (ReceivesFrame(c) /\ msg'[c] = RoomPeerListCmd /\ InRoom(c, r)) =>
         /\ outbox'[c] = Append(outbox[c], RoomPeerListReply(r, uid[c]))
         /\ Has(peers', uid[c])
         /\ peers'[uid[c]].status = r
         /\ uid[c] \in rooms'[r]]_vars

\* connection c has been sent the HELLO reply, is open and is being served
Live(c) == pc[c] \notin {"hello_recv", "done"} /\ open[c]
\* C9: unique peer identity.  No two live connections that have completed
\* the handshake (the HELLO reply was sent) and have not terminated hold
\* the same uid.
UniquePeerIdentity ==
  \A c1 \in Conns, c2 \in Conns :
    (c1 # c2 /\ Live(c1) /\ Live(c2)) => uid[c1] # uid[c2]

\* frame f from connection c is one of the request errors of the claim
RequestError(c, f) ==
  \/ Idle(c) /\ f.t = "SESSION" /\ ~Has(peers, f.a)
  \/ Idle(c) /\ f.t = "ROOM" /\ InvalidRoomId(f.a)
  \/ \E r \in RoomIds :
       /\ InRoom(c, r)
       /\ \/ f.t = "ROOM_PEER_MSG" /\ (~Has(peers, f.a) \/ f.a \notin rooms[r])
          \/ f.t \notin {"ROOM_PEER_MSG", "ROOM_PEER_LIST"}
\* C10: request errors are non-fatal and free of side effects.  For SESSION
\* with an unregistered callee, ROOM with an invalid room id, ROOM_PEER_MSG
\* to an unregistered target or to a target not in the sender's room, and
\* any unrecognised frame while InRoom, the sender receives an ERROR frame,
\* its connection stays open and its handler awaits the next frame, and
\* peers, sessions and rooms are as before.
RequestErrorsHarmless ==
  [][\A c \in Conns :
       (ReceivesFrame(c) /\ RequestError(c, msg'[c])) =>
         /\ Len(outbox'[c]) = Len(outbox[c]) + 1
         /\ outbox'[c][Len(outbox'[c])].t = "ERROR"
         /\ SubSeq(outbox'[c], 1, Len(outbox[c])) = outbox[c]
         /\ open'[c] /\ pc'[c] = "recv"
         /\ peers' = peers /\ sessions' = sessions /\ rooms' = rooms]_vars

\* C11: peer destruction on close.  Whenever the connection of a registered
\* peer closes, for any reason, its entry leaves the registry: stated of
\* the states in which the server has nothing left to do, where every
\* entry of peers must belong to a connection whose handler still runs.
PeerDestroyedOnClose ==
  Quiescent => \A u \in DOMAIN peers : pc[peers[u].ws] # "done"

\* the HELLO reply was sent on connection c
HandshakeDone(c) == outbox[c] # << >>
\* the handler of c is in the command loop of connection_handler
InLoop(c) == pc[c] \in {"recv", "session_ok_sent", "room_ok_sent", "join_bcast"}
\* the handler of c is suspended inside remove_peer
InCleanup(c) == pc[c] \in {"cs_closing", "left_bcast"}
\* C12: cleanup exactly once.  For every connection that completed the
\* handshake, the end of its command loop (by connection close or by any
\* exception raised in it) calls remove_peer exactly once, and the loop
\* ends in no other way: remove_peer has not been called while the loop
\* runs, has been called once while it is suspended in the cleanup, and has
\* been called exactly once when the handler has returned (never, for a
\* connection whose handshake was rejected).
CleanupExactlyOnce ==
  \A c \in Conns :
    /\ (pc[c] \in {"hello_recv", "hello_sent"} \/ InLoop(c)) => removes[c] = 0
    /\ InCleanup(c) => removes[c] = 1
    /\ pc[c] = "done" => removes[c] = (IF HandshakeDone(c) THEN 1 ELSE 0)
\* C12 witness: a handler whose loop was ended by an exception that is no
\* connection close (raised while ROOM_PEER_LIST was handled, on a
\* connection the client never closed) has returned after one call of
\* remove_peer.
CleanupAfterException ==
  \E c \in Conns :
    /\ pc[c] = "done" /\ removes[c] = 1
    /\ msg[c] = RoomPeerListCmd /\ nrecv[c] = 2
    /\ hangup[c] = NoHangup /\ HandshakeDone(c)

\* this step is taken by the task of connection c
StepOf(c) ==
  pc'[c] # pc[c] \/ nrecv'[c] # nrecv[c] \/ iterSeen'[c] # iterSeen[c]
\* every member of room r is registered
MembersRegistered(r) == Has(rooms, r) /\ \A p \in rooms[r] : Has(peers, p)
\* The task of c is about to send ROOM_PEER_JOINED to the members of its
\* room, and nothing but a closed recipient can make a send of it fail: c
\* is the connection registered for its uid, the members are registered
\* and the set has the size it had when the loop began.
JoinBroadcastPending(c) ==
  /\ pc[c] \in {"room_ok_sent", "join_bcast"}
  /\ Has(peers, uid[c]) /\ peers[uid[c]].ws = c /\ open[c]
  /\ MembersRegistered(room_id[c])
  /\ pc[c] = "room_ok_sent" => uid[c] \notin rooms[room_id[c]]
  /\ pc[c] = "join_bcast" =>
       Cardinality(rooms[room_id[c]]) = Cardinality(iterSnap[c])
\* The same of the ROOM_PEER_LEFT loop of cleanup_room
LeftBroadcastPending(c) ==
  /\ pc[c] = "left_bcast"
  /\ MembersRegistered(rp_room[c])
  /\ Cardinality(rooms[rp_room[c]]) = Cardinality(iterSnap[c])
\* C13: broadcast failure isolation.  A send of a ROOM_PEER_JOINED or
\* ROOM_PEER_LEFT broadcast that fails because the recipient's connection
\* is closed does not end the broadcast, so that the other members are
\* still notified, and does not disconnect the peer that caused it: the
\* next step of a join broadcast leaves the joiner registered, connected
\* and in its loop or back at the receive, and the next step of a leave
\* broadcast goes on with the loop or completes the removal of the peer.
BroadcastFailureIsolation ==
  [][\A c \in Conns :
       /\ (JoinBroadcastPending(c) /\ StepOf(c)) =>
            /\ pc'[c] \in {"join_bcast", "recv"}
            /\ open'[c] /\ Has(peers', uid[c])
       /\ (LeftBroadcastPending(c) /\ StepOf(c)) =>
            \/ pc'[c] = "left_bcast"
            \/ pc'[c] = "done" /\ ~Has(peers', uid[c])]_vars

\* the first frame f is refused by hello_peer (lines 182-188)
Rejected(f) ==
  f.t # "HELLO" \/ f.a = "" \/ HasWhitespace(f.a) \/ Has(peers, f.a)
\* C14: a rejected handshake has no effect on others.  When the first
\* frame of a connection is no well-formed HELLO <uid>, or its uid contains
\* whitespace or is registered, the connection is closed and its handler
\* returns, nothing is sent, no other connection is closed, and peers,
\* sessions and rooms are unchanged (so a registered peer of that uid keeps
\* its entry, status and session or room).
RejectedHandshakeHarmless ==
  [][\A c \in Conns :
       (pc[c] = "hello_recv" /\ pc'[c] # "hello_recv") =>
       \A f \in HelloFrames(c) :
       (Rejected(f) /\ hello_peer(c, f)) =>
         /\ ~open'[c] /\ pc'[c] = "done"
         /\ \A d \in Conns \ {c} : open'[d] = open[d]
         /\ outbox' = outbox
         /\ peers' = peers /\ sessions' = sessions /\ rooms' = rooms]_vars
\* C14 witness: the handler of a connection has returned without a HELLO
\* reply and without any cleanup, while a peer registered on another,
\* open connection is in a room or a session.
HandshakeRefused ==
  \E c \in Conns, u \in DOMAIN peers :
    /\ pc[c] = "done" /\ ~HandshakeDone(c) /\ removes[c] = 0
    /\ peers[u].ws # c /\ open[peers[u].ws]
    /\ peers[u].status # None

\* connection c was told of peer v by a ROOM_OK list or by ROOM_PEER_JOINED
LearnedOf(c, v) ==
  \E i \in DOMAIN outbox[c] :
    \/ outbox[c][i].t = "ROOM_OK" /\ v \in outbox[c][i].m
    \/ outbox[c][i] = RoomPeerJoined(v)
\* connection c is registered under its uid, has joined room r and is back
\* at the receive, its connection open
JoinedAndConnected(c, r) ==
  /\ pc[c] = "recv" /\ open[c]
  /\ InRoom(c, r) /\ peers[uid[c]].ws = c
  /\ Has(rooms, r) /\ uid[c] \in rooms[r]
\* C15: atomic room join.  The ROOM_OK member list is computed and the
\* joiner added to rooms[r] without a step of another task in between, so
\* that of two peers that join the same room concurrently and stay
\* connected the one added second finds the first in its ROOM_OK reply:
\* any two members that have completed their joins have each been told of
\* the other, by ROOM_OK or by ROOM_PEER_JOINED.
AtomicRoomJoin ==
  \A c \in Conns, d \in Conns, r \in RoomIds :
    (c # d /\ JoinedAndConnected(c, r) /\ JoinedAndConnected(d, r)) =>
      LearnedOf(c, uid[d]) /\ LearnedOf(d, uid[c])

\* the session of caller u and callee v is recorded in full
SessionRecorded(ps, ss, u, v) ==
  /\ Has(ps, u) /\ ps[u].status = "session"
  /\ Has(ps, v) /\ ps[v].status = "session"
  /\ Has(ss, u) /\ ss[u] = v
  /\ Has(ss, v) /\ ss[v] = u
\* C16: SESSION_OK implies an established session.  Whenever SESSION_OK
\* has been sent to a caller for callee C, the caller's next step records
\* the session in full and at once (both entries of sessions, both statuses
\* 'session'), and C is registered when it is recorded, whatever other
\* tasks did while SESSION_OK was being sent.
SessionOkEstablishes ==
  [][\A c \in Conns :
       (pc[c] = "session_ok_sent" /\ StepOf(c)) =>
         SessionRecorded(peers', sessions', uid[c], callee_id[c])]_vars

\* the handler of c ends its command loop or goes on with its cleanup in
\* this step: remove_peer(uid[c]) runs
CleanupStepOf(c) ==
  /\ StepOf(c)
  /\ InLoop(c) \/ InCleanup(c)
  /\ pc'[c] \in {"cs_closing", "left_bcast", "done"}
\* C17: cleanup touches only its own connection's entry.  When the handler
\* of a connection runs remove_peer(uid) while the entry of uid in peers
\* belongs to another, newer connection that claimed the uid, that entry
\* stays in peers and its connection is not closed.
CleanupOwnEntryOnly ==
  [][\A c \in Conns :
       (/\ CleanupStepOf(c)
        /\ Has(peers, uid[c]) /\ peers[uid[c]].ws # c) =>
         /\ Has(peers', uid[c])
         /\ peers'[uid[c]].ws = peers[uid[c]].ws
         /\ open'[peers[uid[c]].ws] = open[peers[uid[c]].ws]]_vars

\* C18: the already-in-room assertion is unreachable.  No Idle peer that
\* sends a valid ROOM <r> finds its own id in rooms[r]: in no state is the
\* id of an Idle peer whose handler awaits a frame on an open connection
\* (and so may be sent ROOM <r> next) a member of a room.
AlreadyInRoomUnreachable ==
  \A c \in Conns, r \in RoomIds :
    (pc[c] = "recv" /\ open[c] /\ Idle(c)) =>
      ~(Has(rooms, r) /\ uid[c] \in rooms[r])

\* frames written to connection d by the step
NewFrames(d) == {outbox'[d][i] : i \in (Len(outbox[d]) + 1)..Len(outbox'[d])}
IsMember(t, r) == Has(rooms, r) /\ t \in rooms[r]
\* C19: directed room relay.  When sender S in room r has a frame
\* ROOM_PEER_MSG <t> <payload> received and t is registered, a frame
\* ROOM_PEER_MSG S <payload> is written only to t's connection and only if
\* t is a member of rooms[r]; if t is not a member of rooms[r], S gets
\* ERROR peer '<t>' is not in the room and nothing is written to t.
DirectedRoomRelay ==
  [][\A c \in Conns, r \in RoomIds :
       (ReceivesFrame(c) /\ InRoom(c, r) /\ msg'[c].t = "ROOM_PEER_MSG"
          /\ Has(peers, msg'[c].a)) =>
       LET t == msg'[c].a
           wso == peers[t].ws
       IN /\ \A d \in Conns : \A f \in NewFrames(d) :
               f.t = "ROOM_PEER_MSG" =>
                 /\ d = wso /\ IsMember(t, r)
                 /\ f = RoomPeerMsgOut(uid[c], msg'[c].p)
          /\ ~IsMember(t, r) =>
               /\ NewFrames(c) = {ErrorFrame("is not in the room", t)}
               /\ wso # c => NewFrames(wso) = {}]_vars

\* C20: session relay lookups and assertion never fail.  Whenever a
\* registered peer whose status is 'session' dispatches a received frame,
\* sessions[uid] is defined, the partner it names is present in peers, and
\* the partner's status is 'session'.
SessionRelayLookups ==
  [][\A c \in Conns :
       (ReceivesFrame(c) /\ Has(peers, uid[c])
          /\ peers[uid[c]].status = "session") =>
       /\ Has(sessions, uid[c])
       /\ Has(peers, sessions[uid[c]])
       /\ peers[sessions[uid[c]]].status = "session"]_vars

=============================================================================
